---- MODULE Spec2Model ----
(***************************************************************************)
(* AetherScan backend: the per-connection WebSocket session of             *)
(* backend/main.py (websocket_reconstruct, run_reconstruction,             *)
(* send_demo_points), the shared ReconstructionService of                  *)
(* backend/services/reconstruction.py, and the temporary storage the       *)
(* sessions own.  One action per resumption of a coroutine: a handler runs *)
(* from one await that can suspend it to the next.                         *)
(***************************************************************************)
EXTENDS Integers, Sequences, FiniteSets, TLC

\* ---------------------------------------------------------------- bounds
\* Most images one connection uploads (the code has no limit).
MaxImages == 3

\* Sizes of the point list the opaque reconstruction returns.
MaxPoints == 250
ResultSizes == {0, 1, 100, MaxPoints}

\* Connections, client supplied file names, advisory counts.
Sessions == {"s1", "s2"}
Filenames == {"a.jpg"}
Datas == {"d1", "d2", "bad"}
Counts == {0, 2}

\* ------------------------------------------------------ program constants
MIN_IMAGES_REQUIRED == 2
chunk_size == 100
demo_chunks == 100
demo_chunk_points == 10
demo_total_points == 1000

None == "None"

VARIABLES
    \* ReconstructionService (process-wide singleton)
    fast3r_available, model_loaded, ready, startup, loads,
    \* websocket_reconstruct locals, one per connection
    pc, connected, session_images, temp_dir,
    \* run_reconstruction / send_demo_points locals
    points, i,
    \* the file system under the temporary root
    dirs, files, next_dir,
    \* observation of the run
    out, last_msg, invoked, compute_failed, ready_at_invoke, loaded_in_invoke,
    prev_batch, batch, closed_by, send_raises, wrote_after_disconnect,
    after_error, status_resp,
    \* export_to_ply / export_to_ply_binary / export_ply: argument, result,
    \* files written, response of the endpoint
    ply_points, ply_result, ply_files, ply_resp

gwVars == <<fast3r_available, model_loaded, ready, startup, loads>>
sessVars == <<pc, connected, session_images, temp_dir, points, i>>
fsVars == <<dirs, files, next_dir>>
obsVars == <<out, last_msg, invoked, compute_failed, ready_at_invoke,
             loaded_in_invoke, prev_batch, batch, closed_by, send_raises,
             wrote_after_disconnect, after_error, status_resp>>
plyVars == <<ply_points, ply_result, ply_files, ply_resp>>
vars == <<gwVars, sessVars, fsVars, obsVars, plyVars>>

\* ------------------------------------------------------------- messages
Ping == [type |-> "ping"]
Pong == [type |-> "pong"]
UploadCompleteMsg(count) == [type |-> "upload_complete", count |-> count]
ImageDataMsg(filename, data) ==
    [type |-> "image_data", filename |-> filename, data |-> data]
ImageReceived(filename) ==
    [type |-> "image_received", status |-> "saved", filename |-> filename]
ErrorMsg(message) == [type |-> "error", message |-> message]
PointsMsg(chunk) == [type |-> "points", data |-> chunk]
ReconstructionComplete(n) ==
    [type |-> "reconstruction_complete", total_points |-> n]

\* ------------------------------------------------------------ file system
\* tempfile.gettempdir(), the parent of every mkdtemp directory.
TempRoot == "tmp"

\* File names that start with "../": their last component.
ParentNames == {"../a.jpg"}
BaseName(name) == IF name = "../a.jpg" THEN "a.jpg" ELSE name

\* os.path.realpath(os.path.join(d, name)): the directory the file is in and
\* its name there; a leading "../" leaves d for its parent.
Path(d, name) ==
    IF name \in ParentNames
    THEN [dir |-> TempRoot, name |-> BaseName(name)]
    ELSE [dir |-> d, name |-> name]

\* shutil.rmtree(d): the directory and everything stored in it.
RmTreeDirs(d) == dirs \ {d}
RmTreeFiles(d) == [p \in {q \in DOMAIN files : q.dir # d} |-> files[p]]

\* "if temp_dir and os.path.exists(temp_dir): shutil.rmtree(temp_dir)"
CleanupDirs(s) ==
    IF temp_dir[s] # None /\ temp_dir[s] \in dirs
    THEN RmTreeDirs(temp_dir[s]) ELSE dirs
CleanupFiles(s) ==
    IF temp_dir[s] # None /\ temp_dir[s] \in dirs
    THEN RmTreeFiles(temp_dir[s]) ELSE files

\* ------------------------------------------------- ReconstructionService
\* _load_model: its entry test (line 52), and what it has written when the
\* load it started ends (lines 69 and 74). ok is whether the download and load
\* succeeded; a failed load disables Fast3R for the process.
LoadAttempted == ~model_loaded /\ fast3r_available
\* LoadModelLoaded that a failed load clears.
LoadModelLoadedCleared(ok) == ok
LoadModelLoaded(ok) == ok \/ model_loaded
LoadModelAvailable(ok) == ok /\ fast3r_available

\* The point list a computation returns: n points, identified 1..n.
MakePoints(n) == [k \in 1..n |-> k]

\* Images a computation can open: the stored path still exists.
Readable(paths) == {k \in 1..Len(paths) : paths[k] \in DOMAIN files}

\* The application serves unless startup_event re-raised.
Serving == startup # "aborted"

\* The event loop thread is inside a synchronous _load_model call
\* (_process_with_fast3r calls it before handing work to the executor), so
\* no coroutine of any connection runs.
Blocked == \E s \in Sessions : pc[s] = "loading"
LoopFree == Serving /\ ~Blocked

\* startup_event hands service.initialize to the default executor: the
\* executor thread enters _load_model. When there is nothing to load it returns
\* at once and initialize ends.
StartupBegin ==
    /\ startup = "pending"
    /\ IF LoadAttempted
       THEN /\ startup' = "loading"
            /\ loads' = loads + 1
            /\ UNCHANGED ready
       ELSE /\ startup' = IF model_loaded THEN "done" ELSE "aborted"
            /\ ready' = model_loaded
            /\ UNCHANGED loads
    /\ UNCHANGED <<fast3r_available, model_loaded, sessVars, fsVars, obsVars,
                   plyVars>>

\* The load of the executor thread ends and initialize returns or raises; on
\* failure startup_event re-raises and the application does not start.
StartupInitialize(ok) ==
    /\ startup = "loading"
    /\ model_loaded' = LoadModelLoaded(ok)
    /\ fast3r_available' = LoadModelAvailable(ok)
    /\ ready' = LoadModelLoaded(ok)
    /\ startup' = IF LoadModelLoaded(ok) THEN "done" ELSE "aborted"
    /\ UNCHANGED <<loads, sessVars, fsVars, obsVars, plyVars>>

\* GET /status: 200 and ready=true when service.ready, else 503 and ready=false.
NoResponse == [status_code |-> 0, ready |-> FALSE]
\* StatusResponse that does not read the flag.
StatusResponseOk == [status_code |-> 200, ready |-> TRUE]
StatusResponse == IF ready THEN [status_code |-> 200, ready |-> TRUE]
                  ELSE [status_code |-> 503, ready |-> FALSE]
StatusProbe ==
    /\ LoopFree
    /\ status_resp' = StatusResponse
    /\ UNCHANGED <<gwVars, sessVars, fsVars, out, last_msg, invoked,
                   compute_failed, ready_at_invoke, loaded_in_invoke,
                   prev_batch, batch, closed_by, send_raises,
                   wrote_after_disconnect, after_error, plyVars>>

\* --------------------------------------------------------------- transport
Min(a, b) == IF a < b THEN a ELSE b

\* What the client has received after the server writes m on connection s.
Sent(s, log, m) == IF connected[s] THEN Append(log, m) ELSE log

\* A write on a connection whose client is gone raises or is dropped,
\* depending on the ASGI stack in use.
SendRaises(s) == ~connected[s] /\ send_raises

\* The client goes away; the server learns of it at its next receive or send.
Disconnect(s) ==
    /\ Serving
    /\ pc[s] # "closed"
    /\ connected[s]
    /\ connected' = [connected EXCEPT ![s] = FALSE]
    /\ UNCHANGED <<gwVars, pc, session_images, temp_dir, points, i, fsVars,
                   obsVars, plyVars>>

\* Teardown without the finally block: the directory is left behind.
TeardownLeavesDir(s, by) ==
    /\ pc' = [pc EXCEPT ![s] = "closed"]
    /\ connected' = [connected EXCEPT ![s] = FALSE]
    /\ closed_by' = [closed_by EXCEPT ![s] = by]
    /\ UNCHANGED <<session_images, temp_dir, points, i, fsVars>>

\* except WebSocketDisconnect / except Exception (websocket.close) / finally:
\* the handler ends and removes its temporary directory.
Teardown(s, by) ==
    /\ pc' = [pc EXCEPT ![s] = "closed"]
    /\ connected' = [connected EXCEPT ![s] = FALSE]
    /\ closed_by' = [closed_by EXCEPT ![s] = by]
    /\ dirs' = CleanupDirs(s)
    /\ files' = CleanupFiles(s)
    /\ UNCHANGED <<session_images, temp_dir, points, i, next_dir>>

\* EndCycle that leaves the loop instead of going back to receive.
EndCycleCloses(s) ==
    /\ pc' = [pc EXCEPT ![s] = "closed"]
    /\ dirs' = CleanupDirs(s)
    /\ files' = CleanupFiles(s)
    /\ prev_batch' = [prev_batch EXCEPT ![s] = <<session_images[s]>>]
    /\ batch' = [batch EXCEPT ![s] = <<>>]
    /\ UNCHANGED <<connected, session_images, temp_dir, next_dir, closed_by>>

\* Lines 179-183: the handler is back in its receive loop after a cycle.
EndCycle(s) ==
    /\ pc' = [pc EXCEPT ![s] = "receive"]
    /\ dirs' = CleanupDirs(s)
    /\ files' = CleanupFiles(s)
    /\ prev_batch' = [prev_batch EXCEPT ![s] = <<session_images[s]>>]
    /\ batch' = [batch EXCEPT ![s] = <<>>]
    /\ UNCHANGED <<connected, session_images, temp_dir, next_dir, closed_by>>

\* ------------------------------------------------ websocket_reconstruct
\* Receiving that does not wait for the cycle to end.
ReceivingAnytime(s) == LoopFree /\ pc[s] # "closed" /\ connected[s]

\* The handler is at "await websocket.receive_text()" and a message is there.
Receiving(s) == LoopFree /\ pc[s] = "receive" /\ connected[s]

\* The message being handled is the first after a cycle that ended with an
\* error message.
Arrived(s) ==
    after_error' =
        [after_error EXCEPT ![s] =
            /\ last_msg[s].type = "upload_complete"
            /\ out[s] # <<>>
            /\ out[s][Len(out[s])].type = "error"]

\* receive_text raises WebSocketDisconnect.
ReceiveDisconnect(s) ==
    /\ LoopFree
    /\ pc[s] = "receive"
    /\ ~connected[s]
    /\ Teardown(s, "client")
    /\ UNCHANGED <<gwVars, out, last_msg, invoked, compute_failed,
                   ready_at_invoke, loaded_in_invoke, prev_batch, batch,
                   send_raises,
                   wrote_after_disconnect>>
    /\ UNCHANGED <<after_error, status_resp, plyVars>>

\* json.loads or message.get raises: except Exception closes with 1011.
Malformed(s) ==
    /\ Receiving(s)
    /\ last_msg' = [last_msg EXCEPT ![s] = [type |-> "malformed"]]
    /\ out' = [out EXCEPT ![s] = <<>>]
    /\ Teardown(s, "server")
    /\ UNCHANGED <<gwVars, invoked, compute_failed, ready_at_invoke,
                   loaded_in_invoke, prev_batch, batch, send_raises,
                   wrote_after_disconnect>>
    /\ Arrived(s)
    /\ UNCHANGED <<status_resp, plyVars>>

\* PingHandler that also forgets the uploaded images.
PingHandlerDropsImages(s) ==
    /\ Receiving(s)
    /\ last_msg' = [last_msg EXCEPT ![s] = Ping]
    /\ out' = [out EXCEPT ![s] = <<Pong>>]
    /\ session_images' = [session_images EXCEPT ![s] = <<>>]
    /\ UNCHANGED <<gwVars, pc, connected, temp_dir, points, i, fsVars, invoked,
                   compute_failed, ready_at_invoke, loaded_in_invoke,
                   prev_batch, batch, closed_by, send_raises,
                   wrote_after_disconnect>>
    /\ Arrived(s)
    /\ UNCHANGED <<status_resp, plyVars>>

PingHandler(s) ==
    /\ Receiving(s)
    /\ last_msg' = [last_msg EXCEPT ![s] = Ping]
    /\ out' = [out EXCEPT ![s] = <<Pong>>]
    /\ UNCHANGED <<gwVars, sessVars, fsVars, invoked, compute_failed,
                   ready_at_invoke, loaded_in_invoke, prev_batch, batch,
                   closed_by, send_raises, wrote_after_disconnect>>
    /\ Arrived(s)
    /\ UNCHANGED <<status_resp, plyVars>>

\* A message whose type matches no branch is ignored.
OtherMessage(s) ==
    /\ Receiving(s)
    /\ last_msg' = [last_msg EXCEPT ![s] = [type |-> "other"]]
    /\ out' = [out EXCEPT ![s] = <<>>]
    /\ UNCHANGED <<gwVars, sessVars, fsVars, invoked, compute_failed,
                   ready_at_invoke, loaded_in_invoke, prev_batch, batch,
                   closed_by, send_raises, wrote_after_disconnect>>
    /\ Arrived(s)
    /\ UNCHANGED <<status_resp, plyVars>>

\* message.get("filename", f"image_{len(session_images)}.jpg")
DefaultName(n) == "image_" \o ToString(n) \o ".jpg"
FileName(s, filename) ==
    IF filename = None THEN DefaultName(Len(session_images[s])) ELSE filename

\* base64.b64decode: the bytes of a well formed payload.
B64Decode(data) == IF data = "d1" THEN "bytes1" ELSE "bytes2"

\* tempfile.mkdtemp(prefix="aetherscan_"): a name no earlier call returned.
MkDtemp(n) == "aetherscan_" \o ToString(n)

\* Saved that takes every payload: nothing raises in the try block.
SavedAlways(data, d, existing) == TRUE

\* The try block of lines 192-212 reaches the append: the payload decodes and
\* the file opens in a directory that exists.
Saved(data, d, existing) == data # "bad" /\ d \in existing

ImageData(s, filename, data) ==
    LET name == FileName(s, filename)
        create == temp_dir[s] = None
        d == IF create THEN MkDtemp(next_dir) ELSE temp_dir[s]
        dirsNow == IF create THEN dirs \cup {d} ELSE dirs
        temp_path == Path(d, name)
        saved == Saved(data, d, dirsNow)
    IN
    /\ Receiving(s)
    /\ Len(session_images[s]) < MaxImages
    /\ last_msg' = [last_msg EXCEPT ![s] = ImageDataMsg(filename, data)]
    /\ temp_dir' = [temp_dir EXCEPT ![s] = d]
    /\ next_dir' = IF create THEN next_dir + 1 ELSE next_dir
    /\ dirs' = dirsNow
    /\ IF saved
       THEN /\ files' = (temp_path :> B64Decode(data)) @@ files
            /\ session_images' =
                   [session_images EXCEPT ![s] = Append(@, temp_path)]
            /\ batch' = [batch EXCEPT ![s] = Append(@, temp_path)]
            /\ out' = [out EXCEPT ![s] = <<ImageReceived(name)>>]
       ELSE /\ out' = [out EXCEPT ![s] = <<ErrorMsg("Failed to save image")>>]
            /\ UNCHANGED <<files, session_images, batch>>
    /\ UNCHANGED <<gwVars, pc, connected, points, i, invoked, compute_failed,
                   ready_at_invoke, loaded_in_invoke, prev_batch, closed_by,
                   send_raises, wrote_after_disconnect>>
    /\ Arrived(s)
    /\ UNCHANGED <<status_resp, plyVars>>

\* -------------------------------------------------- upload_complete cycle
\* A write made while the client is gone.
Late(s) ==
    wrote_after_disconnect' =
        [wrote_after_disconnect EXCEPT ![s] = @ \/ ~connected[s]]

\* Insufficient that lets every list through.
InsufficientNever(paths) == FALSE

\* "if len(image_paths) < self.min_images: raise ValueError"
Insufficient(paths) == Len(paths) < MIN_IMAGES_REQUIRED

\* process_images up to its first suspension, for at least one stored image.
ProcessImages(s) ==
    LET paths == session_images[s] IN
    /\ invoked' = [invoked EXCEPT ![s] = <<paths>>]
    /\ ready_at_invoke' = [ready_at_invoke EXCEPT ![s] = ready]
    /\ points' = [points EXCEPT ![s] = <<>>]
    /\ i' = [i EXCEPT ![s] = 0]
    /\ compute_failed' = [compute_failed EXCEPT ![s] = FALSE]
    /\ UNCHANGED <<fast3r_available, model_loaded, ready, startup>>
    /\ IF Insufficient(paths)
       THEN \* ValueError, caught by run_reconstruction: one error message
            /\ out' = [out EXCEPT ![s] = <<ErrorMsg("Insufficient images")>>]
            /\ loaded_in_invoke' = [loaded_in_invoke EXCEPT ![s] = FALSE]
            /\ EndCycle(s)
            /\ UNCHANGED loads
       ELSE /\ out' = [out EXCEPT ![s] = <<>>]
            /\ UNCHANGED <<connected, session_images, temp_dir, fsVars,
                           prev_batch, batch, closed_by>>
            /\ IF fast3r_available
               THEN \* _process_with_fast3r: _load_model on the event loop
                    \* thread when the model is not loaded, else the executor
                    /\ loaded_in_invoke' =
                           [loaded_in_invoke EXCEPT ![s] = LoadAttempted]
                    /\ loads' = IF LoadAttempted THEN loads + 1 ELSE loads
                    /\ pc' = [pc EXCEPT ![s] =
                                 IF LoadAttempted THEN "loading" ELSE "fast3r"]
               ELSE /\ loaded_in_invoke' =
                           [loaded_in_invoke EXCEPT ![s] = FALSE]
                    /\ UNCHANGED loads
                    /\ pc' = [pc EXCEPT ![s] = "heuristic"]

\* _load_model returns on the event loop thread: with the model loaded the
\* inference goes to the executor, else RuntimeError("Model failed to load")
\* is caught by process_images, which falls back to the heuristic.
LoadReturn(s, ok) ==
    /\ Serving
    /\ pc[s] = "loading"
    /\ model_loaded' = LoadModelLoaded(ok)
    /\ fast3r_available' = LoadModelAvailable(ok)
    /\ compute_failed' = [compute_failed EXCEPT ![s] = ~LoadModelLoaded(ok)]
    /\ pc' = [pc EXCEPT ![s] =
                 IF LoadModelLoaded(ok) THEN "fast3r" ELSE "heuristic"]
    /\ UNCHANGED <<ready, startup, loads, connected, session_images, temp_dir,
                   points, i, fsVars, out, last_msg, invoked, ready_at_invoke,
                   loaded_in_invoke, prev_batch, batch, closed_by, send_raises,
                   wrote_after_disconnect, after_error, status_resp,
                   plyVars>>

\* NoImages decided by the count the client declares.
NoImagesByCount(s, count) == count = 0

\* "if len(session_images) == 0", with image_count read but not used.
NoImages(s, count) == Len(session_images[s]) = 0

UploadComplete(s, count) ==
    /\ Receiving(s)
    /\ last_msg' = [last_msg EXCEPT ![s] = UploadCompleteMsg(count)]
    /\ UNCHANGED <<send_raises, wrote_after_disconnect>>
    /\ IF NoImages(s, count)
       THEN \* send_demo_points
            /\ pc' = [pc EXCEPT ![s] = "demo"]
            /\ i' = [i EXCEPT ![s] = 0]
            /\ points' = [points EXCEPT ![s] = <<>>]
            /\ out' = [out EXCEPT ![s] = <<>>]
            /\ invoked' = [invoked EXCEPT ![s] = <<>>]
            /\ compute_failed' = [compute_failed EXCEPT ![s] = FALSE]
            /\ loaded_in_invoke' = [loaded_in_invoke EXCEPT ![s] = FALSE]
            /\ UNCHANGED <<gwVars, connected, session_images, temp_dir,
                           fsVars, ready_at_invoke, prev_batch, batch,
                           closed_by>>
       ELSE ProcessImages(s)
    /\ Arrived(s)
    /\ UNCHANGED <<status_resp, plyVars>>

\* _run_fast3r_inference returns from the executor: n points, or it raises
\* (load_images cannot read a stored path, or inference fails) and
\* process_images falls back to the heuristic.
Fast3rReturn(s, raises, n) ==
    /\ LoopFree
    /\ pc[s] = "fast3r"
    /\ raises \/ Readable(session_images[s]) = 1..Len(session_images[s])
    /\ IF raises
       THEN /\ compute_failed' = [compute_failed EXCEPT ![s] = TRUE]
            /\ pc' = [pc EXCEPT ![s] = "heuristic"]
            /\ UNCHANGED points
       ELSE /\ points' = [points EXCEPT ![s] = MakePoints(n)]
            /\ pc' = [pc EXCEPT ![s] = "stream"]
            /\ UNCHANGED compute_failed
    /\ UNCHANGED <<gwVars, connected, session_images, temp_dir, i, fsVars,
                   out, last_msg, invoked, ready_at_invoke, loaded_in_invoke,
                   prev_batch, batch, closed_by, send_raises,
                   wrote_after_disconnect>>
    /\ UNCHANGED <<after_error, status_resp, plyVars>>

\* _generate_points_from_images returns from the executor; an image that
\* cannot be opened is skipped, so it never raises.
HeuristicReturn(s, n) ==
    /\ LoopFree
    /\ pc[s] = "heuristic"
    /\ Readable(session_images[s]) = {} => n = 0
    /\ points' = [points EXCEPT ![s] = MakePoints(n)]
    /\ pc' = [pc EXCEPT ![s] = "stream"]
    /\ UNCHANGED <<gwVars, connected, session_images, temp_dir, i, fsVars,
                   out, last_msg, invoked, compute_failed, ready_at_invoke,
                   loaded_in_invoke, prev_batch, batch, closed_by, send_raises,
                   wrote_after_disconnect>>
    /\ UNCHANGED <<after_error, status_resp, plyVars>>

\* Chunk with the slice one short: points[i:i+chunk_size-1].
ChunkDropsLast(pts, k) == SubSeq(pts, k + 1, Min(k + chunk_size - 1, Len(pts)))

\* Chunk that ignores the loop index: points[:chunk_size], cut to the length
\* of the chunk that was due.
ChunkFromStart(pts, k) == SubSeq(pts, 1, Min(chunk_size, Len(pts) - k))

\* points[i:i+chunk_size]
Chunk(pts, k) == SubSeq(pts, k + 1, Min(k + chunk_size, Len(pts)))

\* StreamAbort whose error message reaches the client.
StreamAbortDelivers(s) ==
    /\ Teardown(s, "client")
    /\ out' = [out EXCEPT ![s] = Append(@, ErrorMsg("Reconstruction failed"))]
    /\ UNCHANGED <<prev_batch, batch>>

\* A write of run_reconstruction's try block raises: the except block writes
\* the error message, which raises again and ends the handler.
StreamAbort(s) ==
    /\ Teardown(s, "client")
    /\ UNCHANGED <<out, prev_batch, batch>>

\* One iteration of "for i in range(0, len(points), chunk_size)".
StreamChunk(s) ==
    /\ LoopFree
    /\ pc[s] = "stream"
    /\ i[s] < Len(points[s])
    /\ Late(s)
    /\ IF SendRaises(s)
       THEN StreamAbort(s)
       ELSE /\ out' = [out EXCEPT ![s] =
                          Sent(s, @, PointsMsg(Chunk(points[s], i[s])))]
            /\ i' = [i EXCEPT ![s] = @ + chunk_size]
            /\ UNCHANGED <<pc, connected, session_images, temp_dir, points,
                           fsVars, prev_batch, batch, closed_by>>
    /\ UNCHANGED <<gwVars, last_msg, invoked, compute_failed, ready_at_invoke,
                   loaded_in_invoke, send_raises>>
    /\ UNCHANGED <<after_error, status_resp, plyVars>>

\* StreamComplete reporting the loop index instead of len(points).
StreamCompleteCountsIndex(s) ==
    /\ LoopFree
    /\ pc[s] = "stream"
    /\ i[s] >= Len(points[s])
    /\ Late(s)
    /\ IF SendRaises(s)
       THEN StreamAbort(s)
       ELSE /\ out' = [out EXCEPT ![s] =
                          Sent(s, @, ReconstructionComplete(i[s]))]
            /\ EndCycle(s)
            /\ UNCHANGED <<points, i>>
    /\ UNCHANGED <<gwVars, last_msg, invoked, compute_failed, ready_at_invoke,
                   loaded_in_invoke, send_raises>>
    /\ UNCHANGED <<after_error, status_resp, plyVars>>

\* The completion signal, then lines 179-183 of the handler.
StreamComplete(s) ==
    /\ LoopFree
    /\ pc[s] = "stream"
    /\ i[s] >= Len(points[s])
    /\ Late(s)
    /\ IF SendRaises(s)
       THEN StreamAbort(s)
       ELSE /\ out' = [out EXCEPT ![s] =
                          Sent(s, @, ReconstructionComplete(Len(points[s])))]
            /\ EndCycle(s)
            /\ UNCHANGED <<points, i>>
    /\ UNCHANGED <<gwVars, last_msg, invoked, compute_failed, ready_at_invoke,
                   loaded_in_invoke, send_raises>>
    /\ UNCHANGED <<after_error, status_resp, plyVars>>

\* ------------------------------------------------------ send_demo_points
\* A demo point: random coordinates and colours, not a gateway point.
DemoPoint == 0
\* A demo chunk one point short: range(9).
DemoChunkPointsShort == [k \in 1..(demo_chunk_points - 1) |-> DemoPoint]
DemoChunkPoints == [k \in 1..demo_chunk_points |-> DemoPoint]

\* One iteration of "for i in range(100)"; a raising write ends the handler.
DemoChunk(s) ==
    /\ LoopFree
    /\ pc[s] = "demo"
    /\ i[s] < demo_chunks
    /\ Late(s)
    /\ IF SendRaises(s)
       THEN StreamAbort(s)
       ELSE /\ out' = [out EXCEPT ![s] = Sent(s, @, PointsMsg(DemoChunkPoints))]
            /\ i' = [i EXCEPT ![s] = @ + 1]
            /\ UNCHANGED <<pc, connected, session_images, temp_dir, points,
                           fsVars, prev_batch, batch, closed_by>>
    /\ UNCHANGED <<gwVars, last_msg, invoked, compute_failed, ready_at_invoke,
                   loaded_in_invoke, send_raises>>
    /\ UNCHANGED <<after_error, status_resp, plyVars>>

DemoComplete(s) ==
    /\ LoopFree
    /\ pc[s] = "demo"
    /\ i[s] >= demo_chunks
    /\ Late(s)
    /\ IF SendRaises(s)
       THEN StreamAbort(s)
       ELSE /\ out' = [out EXCEPT ![s] =
                          Sent(s, @, ReconstructionComplete(demo_total_points))]
            /\ EndCycle(s)
            /\ UNCHANGED <<points, i>>
    /\ UNCHANGED <<gwVars, last_msg, invoked, compute_failed, ready_at_invoke,
                   loaded_in_invoke, send_raises>>
    /\ UNCHANGED <<after_error, status_resp, plyVars>>

\* ----------------------------------------------------------- ply_exporter
\* Most points in one export request (the code has no limit).
MaxPlyPoints == 2

\* Point dictionaries a client sends: colour channels above 255, below 0, in
\* range, at the limits, and missing.
PlyPointSet ==
    { [x |-> 1, y |-> 2, z |-> 3, r |-> 300, g |-> -5, b |-> 10],
      [x |-> 1, y |-> 2, z |-> 3, r |-> 0, g |-> 255, b |-> 256],
      [x |-> 4, y |-> 5, z |-> 6, r |-> -1, g |-> 128, b |-> 1000],
      [x |-> 7, y |-> 8, z |-> 9],
      [r |-> 17, g |-> 34, b |-> 51] }

RECURSIVE SeqsUpTo(_, _)
SeqsUpTo(S, n) ==
    IF n = 0 THEN {<<>>}
    ELSE LET shorter == SeqsUpTo(S, n - 1) IN
         shorter \cup {Append(q, e) : q \in {w \in shorter : Len(w) = n - 1},
                                      e \in S}

\* point.get(key, default)
Get(point, key, default) ==
    IF key \in DOMAIN point THEN point[key] ELSE default

Max(a, b) == IF a > b THEN a ELSE b

\* Clamp that only cuts at the top: min(255, v).
ClampTopOnly(v) == Min(255, v)

\* max(0, min(255, v))
Clamp(v) == Max(0, Min(255, v))

\* The red, green and blue a point is written with (lines 44-51, 102-109).
Colour(point, key) == Clamp(Get(point, key, 128))

\* The header the f-string builds, split at its newlines.
PlyHeader(format, n) ==
    << "ply",
       "format " \o format \o " 1.0",
       "comment AetherScan Point Cloud Export",
       "element vertex " \o ToString(n),
       "property float x",
       "property float y",
       "property float z",
       "property uchar red",
       "property uchar green",
       "property uchar blue",
       "end_header" >>

\* f"{x} {y} {z} {r} {g} {b}", split at its spaces.
VertexLine(point) ==
    << Get(point, "x", 0), Get(point, "y", 0), Get(point, "z", 0),
       Colour(point, "r"), Colour(point, "g"), Colour(point, "b") >>

\* struct.pack('<f', v): four bytes; struct.pack('B', v): one byte.
Float32(v) == [k \in 1..4 |-> [fmt |-> "f", val |-> v, idx |-> k]]
UChar(v) == <<[fmt |-> "B", val |-> v, idx |-> 1]>>

\* struct.pack('<fffBBB', x, y, z, r, g, b)
Pack(point) ==
    Float32(Get(point, "x", 0)) \o Float32(Get(point, "y", 0))
        \o Float32(Get(point, "z", 0))
        \o UChar(Colour(point, "r")) \o UChar(Colour(point, "g"))
        \o UChar(Colour(point, "b"))

\* The vertex list with its last point left out.
VerticesDropLast(pts) == [k \in 1..(Len(pts) - 1) |-> VertexLine(pts[k])]

\* vertices, one line per point in input order.
Vertices(pts) == [k \in 1..Len(pts) |-> VertexLine(pts[k])]

RECURSIVE VertexData(_)
VertexData(pts) ==
    IF pts = <<>> THEN <<>>
    ELSE Pack(Head(pts)) \o VertexData(Tail(pts))

\* What an encoder call gave: the exception it raised or what it returned.
NoResult == [op |-> "none", error |-> None, header |-> <<>>, lines |-> <<>>,
             data |-> <<>>]
Raised(op, message) ==
    [op |-> op, error |-> message, header |-> <<>>, lines |-> <<>>,
     data |-> <<>>]
Returned(op, header, lines, data) ==
    [op |-> op, error |-> None, header |-> header, lines |-> lines,
     data |-> data]

\* Empty that nothing satisfies: the "if not points" test removed.
EmptyNever(pts) == FALSE

\* "if not points"
Empty(pts) == pts = <<>>

\* export_to_ply(points, filename) as a function of its arguments.
AsciiResult(pts) ==
    IF Empty(pts) THEN Raised("ascii", "No points provided for export")
    ELSE Returned("ascii", PlyHeader("ascii", Len(pts)), Vertices(pts), <<>>)

\* export_to_ply_binary(points, filename) as a function of its arguments.
BinaryResult(pts) ==
    IF Empty(pts) THEN Raised("binary", "No points provided for export")
    ELSE Returned("binary", PlyHeader("binary_little_endian", Len(pts)),
                  <<>>, VertexData(pts))

\* The file an encoder writes when it reaches its open().
Written(filename, result) == [name |-> filename, content |-> result]

ExportToPly(filename) ==
    /\ ply_result' = AsciiResult(ply_points)
    /\ ply_files' = IF AsciiResult(ply_points).error = None /\ filename # None
                    THEN ply_files \cup {Written(filename, AsciiResult(ply_points))}
                    ELSE ply_files
    /\ UNCHANGED <<gwVars, sessVars, fsVars, obsVars, ply_points, ply_resp>>

ExportToPlyBinary(filename) ==
    /\ ply_result' = BinaryResult(ply_points)
    /\ ply_files' = IF BinaryResult(ply_points).error = None
                    THEN ply_files \cup {Written(filename, BinaryResult(ply_points))}
                    ELSE ply_files
    /\ UNCHANGED <<gwVars, sessVars, fsVars, obsVars, ply_points, ply_resp>>

\* POST /export/ply: the ASCII content as an attachment, or 500 and the
\* message of the exception.
NoPlyResponse == [status_code |-> 0, ply |-> NoResult, error |-> None]
ExportPly ==
    /\ ply_result' = AsciiResult(ply_points)
    /\ ply_resp' = IF AsciiResult(ply_points).error = None
                   THEN [status_code |-> 200, ply |-> AsciiResult(ply_points),
                         error |-> None]
                   ELSE [status_code |-> 500, ply |-> NoResult,
                         error |-> AsciiResult(ply_points).error]
    /\ UNCHANGED <<gwVars, sessVars, fsVars, obsVars, ply_points, ply_files>>

\* ------------------------------------------------------------ the system
\* The process has started; the connections in live are accepted and the
\* others have come and gone.
InitFor(live) ==
    /\ fast3r_available \in BOOLEAN
    /\ model_loaded = FALSE
    /\ ready = FALSE
    /\ startup = "pending"
    /\ loads = 0
    /\ pc = [s \in Sessions |-> IF s \in live THEN "receive" ELSE "closed"]
    /\ connected = [s \in Sessions |-> s \in live]
    /\ session_images = [s \in Sessions |-> <<>>]
    /\ temp_dir = [s \in Sessions |-> None]
    /\ points = [s \in Sessions |-> <<>>]
    /\ i = [s \in Sessions |-> 0]
    /\ dirs = {}
    /\ files = <<>>
    /\ next_dir = 1
    /\ out = [s \in Sessions |-> <<>>]
    /\ last_msg = [s \in Sessions |-> [type |-> "none"]]
    /\ invoked = [s \in Sessions |-> <<>>]
    /\ compute_failed = [s \in Sessions |-> FALSE]
    /\ ready_at_invoke = [s \in Sessions |-> FALSE]
    /\ loaded_in_invoke = [s \in Sessions |-> FALSE]
    /\ prev_batch = [s \in Sessions |-> <<>>]
    /\ batch = [s \in Sessions |-> <<>>]
    /\ closed_by = [s \in Sessions |-> IF s \in live THEN None ELSE "client"]
    /\ send_raises \in BOOLEAN
    /\ wrote_after_disconnect = [s \in Sessions |-> FALSE]
    /\ after_error = [s \in Sessions |-> FALSE]
    /\ status_resp = NoResponse

\* No export has been requested.
PlyIdle ==
    /\ ply_points = <<>>
    /\ ply_result = NoResult
    /\ ply_files = {}
    /\ ply_resp = NoPlyResponse

\* One connection, every message it can send.
Init == InitFor({"s1"}) /\ PlyIdle

Next ==
    \/ StartupBegin
    \/ \E ok \in BOOLEAN : StartupInitialize(ok)
    \/ \E s \in Sessions : Disconnect(s)
    \/ \E s \in Sessions : ReceiveDisconnect(s)
    \/ \E s \in Sessions : Malformed(s)
    \/ \E s \in Sessions : PingHandler(s)
    \/ \E s \in Sessions : OtherMessage(s)
    \/ \E s \in Sessions, f \in Filenames \cup {None}, d \in Datas :
           ImageData(s, f, d)
    \/ \E s \in Sessions, c \in Counts : UploadComplete(s, c)
    \/ \E s \in Sessions, ok \in BOOLEAN : LoadReturn(s, ok)
    \/ \E s \in Sessions, raises \in BOOLEAN, n \in ResultSizes :
           Fast3rReturn(s, raises, n)
    \/ \E s \in Sessions, n \in ResultSizes : HeuristicReturn(s, n)
    \/ \E s \in Sessions : StreamChunk(s)
    \/ \E s \in Sessions : StreamComplete(s)
    \/ \E s \in Sessions : DemoChunk(s)
    \/ \E s \in Sessions : DemoComplete(s)

Spec == Init /\ [][Next]_vars

\* Two connections at once and the readiness probe: each client stays
\* connected, uploads up to MIN_IMAGES_REQUIRED well formed images, pings, and
\* asks for a reconstruction of what it uploaded; results are empty or a
\* single point.
MultiSizes == {0, 1}
InitMulti == InitFor(Sessions) /\ PlyIdle

NextMulti ==
    \/ StartupBegin
    \/ \E ok \in BOOLEAN : StartupInitialize(ok)
    \/ StatusProbe
    \/ \E s \in Sessions : PingHandler(s)
    \/ \E s \in Sessions :
           /\ Len(session_images[s]) < MIN_IMAGES_REQUIRED
           /\ ImageData(s, None, "d1")
    \/ \E s \in Sessions : session_images[s] # <<>> /\ UploadComplete(s, 0)
    \/ \E s \in Sessions, ok \in BOOLEAN : LoadReturn(s, ok)
    \/ \E s \in Sessions, raises \in BOOLEAN, n \in MultiSizes :
           Fast3rReturn(s, raises, n)
    \/ \E s \in Sessions, n \in MultiSizes : HeuristicReturn(s, n)
    \/ \E s \in Sessions : StreamChunk(s)
    \/ \E s \in Sessions : StreamComplete(s)

SpecMulti == InitMulti /\ [][NextMulti]_vars

\* The export functions on their own: the request body is any list of up to
\* MaxPlyPoints point dictionaries; no connection is open.
PlyFilenames == {"cloud.ply"}
InitPly ==
    /\ InitFor({})
    /\ fast3r_available
    /\ send_raises
    /\ ply_points \in SeqsUpTo(PlyPointSet, MaxPlyPoints)
    /\ ply_result = NoResult
    /\ ply_files = {}
    /\ ply_resp = NoPlyResponse

NextPly ==
    \/ \E f \in PlyFilenames \cup {None} : ExportToPly(f)
    \/ \E f \in PlyFilenames : ExportToPlyBinary(f)
    \/ ExportPly

SpecPly == InitPly /\ [][NextPly]_vars

\* Two connections that upload under client chosen file names, one of them
\* with a leading "../", and go away.
PathNames == {"a.jpg"} \cup ParentNames
InitPaths == InitFor(Sessions) /\ PlyIdle

NextPaths ==
    \/ \E s \in Sessions : Disconnect(s)
    \/ \E s \in Sessions : ReceiveDisconnect(s)
    \/ \E s \in Sessions, f \in PathNames, d \in Datas \ {"bad"} :
           /\ Len(session_images[s]) < MIN_IMAGES_REQUIRED
           /\ ImageData(s, f, d)

SpecPaths == InitPaths /\ [][NextPaths]_vars

\* Cycles under fair scheduling: the event loop resumes a coroutine that is
\* ready, and a load or a computation handed to the executor returns. The
\* client uploads up to MIN_IMAGES_REQUIRED well formed images and sends
\* upload_complete, with or without images, and may go away.
LiveSizes == {0, 1, chunk_size + 1}
NextLive ==
    \/ StartupBegin
    \/ \E ok \in BOOLEAN : StartupInitialize(ok)
    \/ \E s \in Sessions : Disconnect(s)
    \/ \E s \in Sessions : ReceiveDisconnect(s)
    \/ \E s \in Sessions :
           /\ Len(session_images[s]) < MIN_IMAGES_REQUIRED
           /\ ImageData(s, None, "d1")
    \/ \E s \in Sessions : UploadComplete(s, 0)
    \/ \E s \in Sessions, ok \in BOOLEAN : LoadReturn(s, ok)
    \/ \E s \in Sessions, raises \in BOOLEAN, n \in LiveSizes :
           Fast3rReturn(s, raises, n)
    \/ \E s \in Sessions, n \in LiveSizes : HeuristicReturn(s, n)
    \/ \E s \in Sessions : StreamChunk(s)
    \/ \E s \in Sessions : StreamComplete(s)
    \/ \E s \in Sessions : DemoChunk(s)
    \/ \E s \in Sessions : DemoComplete(s)

Fairness ==
    \A s \in Sessions :
        /\ WF_vars(\E ok \in BOOLEAN : LoadReturn(s, ok))
        /\ WF_vars(\E raises \in BOOLEAN, n \in LiveSizes :
                       Fast3rReturn(s, raises, n))
        /\ WF_vars(\E n \in LiveSizes : HeuristicReturn(s, n))
        /\ WF_vars(StreamChunk(s))
        /\ WF_vars(StreamComplete(s))
        /\ WF_vars(DemoChunk(s))
        /\ WF_vars(DemoComplete(s))

SpecLive == Init /\ [][NextLive]_vars /\ Fairness

\* --------------------------------------------------------------- claims
\* The handler of s is back in its receive loop after an upload_complete.
CycleDone(s) == pc[s] = "receive" /\ last_msg[s].type = "upload_complete"

\* The image list of the cycle's process_images call, <<>> when none.
InvokedWith(s) == IF invoked[s] = <<>> THEN <<>> ELSE invoked[s][1]

\* Messages of one type in a log.
OfType(log, type) == SelectSeq(log, LAMBDA m : m.type = type)

\* Points carried by the points messages among the first k messages.
RECURSIVE SumPoints(_, _)
SumPoints(log, k) ==
    IF k = 0 THEN 0
    ELSE SumPoints(log, k - 1)
         + (IF log[k].type = "points" THEN Len(log[k].data) ELSE 0)

\* The points of the points messages among the first k, in emission order.
RECURSIVE Concat(_, _)
Concat(log, k) ==
    IF k = 0 THEN <<>>
    ELSE Concat(log, k - 1)
         \o (IF log[k].type = "points" THEN log[k].data ELSE <<>>)

\* C1: a cycle on at least 2 images whose reconstruction failed emits exactly
\* one error message and no points message and no reconstruction_complete.
C1_FailureGivesOneError ==
    \A s \in Sessions :
        (CycleDone(s) /\ connected[s] /\ compute_failed[s]
            /\ Len(InvokedWith(s)) >= 2)
        => /\ Len(out[s]) = 1
           /\ out[s][1].type = "error"

\* C2: process_images on at least 2 images whose computation failed returns
\* an error to its caller, never a point list.
C2_InvokeSurfacesFailure ==
    \A s \in Sessions :
        (Len(InvokedWith(s)) >= 2 /\ compute_failed[s]) => pc[s] # "stream"

\* C3: process_images called while the service is not ready does no
\* reconstruction work and no model loading, and the cycle yields an error
\* rather than points.
C3_NotReadyRejected ==
    \A s \in Sessions :
        (invoked[s] # <<>> /\ ~ready_at_invoke[s]
            /\ last_msg[s].type = "upload_complete")
        => /\ ~loaded_in_invoke[s]
           /\ pc[s] \notin {"fast3r", "heuristic", "stream"}
           /\ OfType(out[s], "points") = <<>>

\* C4: when a cycle has ended, whichever branch it took, the image list is
\* empty and the temporary directory is gone.
C4_CycleResets ==
    \A s \in Sessions :
        CycleDone(s) => /\ session_images[s] = <<>>
                        /\ temp_dir[s] \notin dirs

\* C5: after a finished cycle that had an image, a valid image_data is stored,
\* appended and acknowledged, and the next cycle passes process_images exactly
\* the images uploaded since the previous cycle ended.
C5_NextBatchAccepted ==
    \A s \in Sessions :
        /\ (/\ pc[s] = "receive"
            /\ prev_batch[s] # <<>>
            /\ Len(prev_batch[s][1]) >= 1
            /\ last_msg[s].type = "image_data"
            /\ last_msg[s].data # "bad")
           => /\ Len(out[s]) = 1
              /\ out[s][1].type = "image_received"
              /\ batch[s] # <<>>
              /\ batch[s][Len(batch[s])] \in DOMAIN files
              /\ session_images[s][Len(session_images[s])]
                     = batch[s][Len(batch[s])]
        /\ (pc[s] \in {"fast3r", "heuristic", "stream"})
           => InvokedWith(s) = batch[s]

\* C6: in a cycle that ends with reconstruction_complete, real or demo, the
\* lengths of the points messages emitted before it add up to its
\* total_points.
C6_TotalMatchesStreamed ==
    \A s \in Sessions :
        \A k \in 1..Len(out[s]) :
            out[s][k].type = "reconstruction_complete"
            => SumPoints(out[s], k - 1) = out[s][k].total_points

\* A finished real cycle whose three chunks add up to the declared 250.
C6_Witness ==
    \E s \in Sessions :
        /\ CycleDone(s)
        /\ invoked[s] # <<>>
        /\ Len(out[s]) = 4
        /\ out[s][4].type = "reconstruction_complete"
        /\ out[s][4].total_points = 250
        /\ SumPoints(out[s], 3) = 250

\* C7: N returned points are emitted as ceil(N/100) points messages of 100
\* points, the last one holding the remainder, followed by one
\* reconstruction_complete with total_points = N.
C7_ChunkCountAndSizes ==
    \A s \in Sessions :
        (CycleDone(s) /\ connected[s] /\ Len(InvokedWith(s)) >= 2)
        => LET N == Len(points[s])
               m == (N + 99) \div 100
           IN /\ Len(out[s]) = m + 1
              /\ \A k \in 1..m :
                     /\ out[s][k].type = "points"
                     /\ Len(out[s][k].data)
                            = (IF k < m THEN 100 ELSE N - 100 * (m - 1))
              /\ out[s][m + 1] = ReconstructionComplete(N)

\* 250 returned points went out as 100, 100, 50 and a completion of 250; the
\* empty result of another run went out as a completion alone.
C7_Witness ==
    \E s \in Sessions :
        /\ CycleDone(s)
        /\ connected[s]
        /\ Len(points[s]) = 250
        /\ Len(out[s]) = 4
        /\ Len(out[s][1].data) = 100
        /\ Len(out[s][2].data) = 100
        /\ Len(out[s][3].data) = 50
        /\ out[s][4] = ReconstructionComplete(250)

\* C8: the points messages of a cycle, concatenated in emission order, are the
\* returned point list in its order (a prefix of it while streaming), and no
\* points message follows the cycle's reconstruction_complete.
C8_OrderedBeforeCompletion ==
    \A s \in Sessions :
        (invoked[s] # <<>> /\ last_msg[s].type = "upload_complete")
        => /\ \A k \in 1..Len(out[s]) :
                  out[s][k].type = "reconstruction_complete" => k = Len(out[s])
           /\ connected[s] /\ pc[s] = "stream"
              => Concat(out[s], Len(out[s]))
                     = SubSeq(points[s], 1, Min(i[s], Len(points[s])))
           /\ CycleDone(s) /\ connected[s] /\ Len(InvokedWith(s)) >= 2
              => Concat(out[s], Len(out[s]) - 1) = points[s]

\* A finished cycle that delivered all 250 points in order, then completion.
C8_Witness ==
    \E s \in Sessions :
        /\ CycleDone(s)
        /\ connected[s]
        /\ Len(points[s]) = 250
        /\ Concat(out[s], 3) = points[s]
        /\ out[s][Len(out[s])].type = "reconstruction_complete"

\* C9: an upload_complete with no stored image never calls process_images and
\* never emits an error; it emits 100 chunks of 10 synthetic points and then
\* reconstruction_complete with total_points 1000.
C9_DemoNeverFails ==
    \A s \in Sessions :
        (last_msg[s].type = "upload_complete" /\ session_images[s] = <<>>)
        => /\ invoked[s] = <<>>
           /\ pc[s] \in {"demo", "receive", "closed"}
           /\ OfType(out[s], "error") = <<>>
           /\ pc[s] = "demo" /\ connected[s] => Len(out[s]) = i[s]
           /\ CycleDone(s) /\ connected[s]
              => /\ Len(out[s]) = 101
                 /\ \A k \in 1..100 :
                        /\ out[s][k].type = "points"
                        /\ Len(out[s][k].data) = 10
                 /\ out[s][101] = ReconstructionComplete(1000)

\* A finished demo cycle on a connection that is still open.
C9_Witness ==
    \E s \in Sessions :
        /\ CycleDone(s)
        /\ connected[s]
        /\ session_images[s] = <<>>
        /\ Len(out[s]) = 101

C11_MalformedKeepsSession ==
    \A s \in Sessions :
        last_msg[s].type = "malformed"
        => /\ closed_by[s] # "server"
           /\ pc[s] # "closed" \/ closed_by[s] = "client"

C13_OthersKeepRunning ==
    \A s, t \in Sessions :
        (/\ s # t
         /\ Serving
         /\ pc[s] \in {"loading", "fast3r", "heuristic"}
         /\ pc[t] = "receive"
         /\ connected[t])
        => /\ ENABLED PingHandler(t)
           /\ ENABLED ImageData(t, None, "d1")

\* C14: however many callers ask for the model at once, startup or
\* connections, the model load runs at most once in the life of the process.
C14_LoadsOnce == loads <= 1

\* C15: the readiness flag and the loaded flag it reports start false, never
\* go from true to false, and readiness becomes true only when initialization
\* has completed with the model loaded.
C15_ReadyOnlyRises ==
    /\ ~ready /\ ~model_loaded
    /\ [][/\ ready => ready'
          /\ model_loaded => model_loaded'
          /\ (~ready /\ ready') => (model_loaded' /\ startup' = "done")]_vars

\* Initialization has completed and a connection has since finished a cycle
\* that was invoked while the flag was still false.
C15_Witness ==
    /\ ready
    /\ model_loaded
    /\ \E s \in Sessions :
           CycleDone(s) /\ invoked[s] # <<>> /\ ~ready_at_invoke[s]

\* C16: the readiness probe answers 503 with ready=false while initialization
\* has not completed and 200 with ready=true once it has, and no answer ever
\* says ready=true before initialization has completed with the model loaded.
C16_ProbeReportsReadiness ==
    /\ [](/\ status_resp.ready => (startup = "done" /\ model_loaded)
          /\ status_resp.ready <=> status_resp.status_code = 200)
    /\ [][StatusProbe
          => status_resp' = IF startup = "done"
                            THEN [status_code |-> 200, ready |-> TRUE]
                            ELSE [status_code |-> 503, ready |-> FALSE]]_vars

\* The probe answered 200 after startup had loaded the model, while a
\* connection was in the middle of a cycle.
C16_Witness ==
    /\ status_resp = [status_code |-> 200, ready |-> TRUE]
    /\ startup = "done"
    /\ \E s \in Sessions : pc[s] \in {"fast3r", "heuristic", "stream"}

\* C17: process_images called with fewer than 2 paths fails at once: no model
\* load, no computation, no points; the connection gets one error message.
C17_TooFewImagesFailFast ==
    \A s \in Sessions :
        (/\ last_msg[s].type = "upload_complete"
         /\ invoked[s] # <<>>
         /\ Len(InvokedWith(s)) < 2)
        => /\ out[s] = <<ErrorMsg("Insufficient images")>>
           /\ ~loaded_in_invoke[s]
           /\ ~compute_failed[s]
           /\ points[s] = <<>>
           /\ pc[s] \in {"receive", "closed"}

\* A connection with exactly one stored image sent upload_complete and is back
\* in its receive loop with the error.
C17_Witness ==
    \E s \in Sessions :
        /\ CycleDone(s)
        /\ connected[s]
        /\ Len(InvokedWith(s)) = 1
        /\ ~loaded_in_invoke[s]
        /\ out[s] = <<ErrorMsg("Insufficient images")>>

\* C18: once the client of a connection is gone the server attempts no
\* further write to it: no points, no reconstruction_complete, no error.
C18_NoWriteAfterDisconnect ==
    \A s \in Sessions : ~wrote_after_disconnect[s]

\* C19: the message that follows a cycle that ended with an error message is
\* processed normally on an open connection: a ping is answered with pong and
\* a valid image_data is stored, appended and acknowledged.
C19_UsableAfterError ==
    \A s \in Sessions :
        after_error[s]
        => /\ last_msg[s].type \in {"ping", "image_data", "upload_complete"}
              => closed_by[s] # "server"
           /\ last_msg[s] = Ping => out[s] = <<Pong>>
           /\ (last_msg[s].type = "image_data" /\ last_msg[s].data # "bad")
              => /\ Len(out[s]) = 1
                 /\ out[s][1].type = "image_received"
                 /\ session_images[s] # <<>>
                 /\ session_images[s][Len(session_images[s])] \in DOMAIN files

\* C20: handling a ping sends exactly one pong and leaves the handler's
\* position, its image list, its temporary directory and the stored files
\* unchanged.
C20_PingChangesNothing ==
    [][\A s \in Sessions :
          PingHandler(s)
          => /\ out'[s] = <<[type |-> "pong"]>>
             /\ pc'[s] = pc[s]
             /\ connected'[s] = connected[s]
             /\ session_images'[s] = session_images[s]
             /\ temp_dir'[s] = temp_dir[s]
             /\ dirs' = dirs
             /\ files' = files]_vars

\* A ping was answered on a connection that holds stored images in a
\* directory that exists.
C20_Witness ==
    \E s \in Sessions :
        /\ last_msg[s] = Ping
        /\ out[s] = <<Pong>>
        /\ pc[s] = "receive"
        /\ session_images[s] # <<>>
        /\ temp_dir[s] \in dirs
        /\ \A k \in 1..Len(session_images[s]) :
               session_images[s][k] \in DOMAIN files

\* The value a channel must be written with: min(255, max(0, v)).
Clamped(v) == IF v > 255 THEN 255 ELSE IF v < 0 THEN 0 ELSE v

\* The place of a colour channel among the six fields of a record.
ChannelField(c) == IF c = "r" THEN 4 ELSE IF c = "g" THEN 5 ELSE 6

\* C21: for every point of a non-empty input both encoders write each colour
\* channel the point carries as min(255, max(0, value)) and do not reject the
\* export: above 255 gives 255, below 0 gives 0, in range is unchanged.
C21_ChannelsClamped ==
    (ply_points # <<>> /\ ply_result.op # "none")
    => /\ ply_result.error = None
       /\ \A k \in 1..Len(ply_points) :
             \A c \in {"r", "g", "b"} \cap DOMAIN ply_points[k] :
                LET want == Clamped(ply_points[k][c])
                    byte == 15 * (k - 1) + 12 + (ChannelField(c) - 3)
                IN /\ ply_result.op = "ascii"
                      => ply_result.lines[k][ChannelField(c)] = want
                   /\ ply_result.op = "binary"
                      => /\ ply_result.data[byte].fmt = "B"
                         /\ ply_result.data[byte].val = want

\* The point r=300, g=-5, b=10 was written in ASCII as 1 2 3 255 0 10.
C21_Witness ==
    /\ ply_points = <<[x |-> 1, y |-> 2, z |-> 3, r |-> 300, g |-> -5, b |-> 10]>>
    /\ ply_result.op = "ascii"
    /\ ply_result.lines = << <<1, 2, 3, 255, 0, 10>> >>

\* The header lines that do not depend on the input.
HeaderRest(format) ==
    << "ply", "format " \o format \o " 1.0",
       "comment AetherScan Point Cloud Export", "",
       "property float x", "property float y", "property float z",
       "property uchar red", "property uchar green", "property uchar blue",
       "end_header" >>

\* C22: for N >= 1 points both encoders declare "element vertex N" and emit N
\* records: N lines of six fields in ASCII, 15 * N bytes in binary; the rest
\* of the header is the same for every N.
C22_VertexCountMatches ==
    (ply_points # <<>> /\ ply_result.op # "none")
    => LET N == Len(ply_points)
           format == IF ply_result.op = "ascii" THEN "ascii"
                     ELSE "binary_little_endian"
       IN /\ Len(ply_result.header) = 11
          /\ ply_result.header[4] = "element vertex " \o ToString(N)
          /\ [ply_result.header EXCEPT ![4] = ""] = HeaderRest(format)
          /\ ply_result.op = "ascii"
             => /\ Len(ply_result.lines) = N
                /\ \A k \in 1..N : Len(ply_result.lines[k]) = 6
          /\ ply_result.op = "binary" => Len(ply_result.data) = 15 * N

\* Two points were encoded in binary as a body of 30 bytes.
C22_Witness ==
    /\ Len(ply_points) = 2
    /\ ply_result.op = "binary"
    /\ ply_result.header[4] = "element vertex 2"
    /\ Len(ply_result.data) = 30

\* C23: exporting an empty list raises in both encoders before any content
\* is built or any file is written, and the endpoint answers with a failure
\* status and an error payload, not a PLY.
C23_EmptyInputRejected ==
    ply_points = <<>>
    => /\ ply_files = {}
       /\ ply_result.op # "none"
          => /\ ply_result.error = "No points provided for export"
             /\ ply_result.header = <<>>
             /\ ply_result.lines = <<>>
             /\ ply_result.data = <<>>
       /\ ply_resp.status_code # 0
          => /\ ply_resp.status_code = 500
             /\ ply_resp.error = "No points provided for export"
             /\ ply_resp.ply = NoResult

\* The endpoint answered 500 to an empty list, and the binary encoder, asked
\* to write a file, raised.
C23_Witness ==
    /\ ply_points = <<>>
    /\ ply_resp.status_code = 500
    /\ ply_result.op = "binary"
    /\ ply_result.error # None

\* C24: two image_data messages with the same file name in one batch are
\* stored as two images, each in a file of its own, so the second upload does
\* not overwrite what the first stored.
C24_DuplicateNamesKeptApart ==
    \A s \in Sessions :
        \A j, k \in 1..Len(batch[s]) :
            j # k => batch[s][j] # batch[s][k]

\* C25: every stored path of a connection lies in that connection's own
\* temporary directory, whatever file name the client gave, and two live
\* connections share neither a directory nor a stored path.
C25_StoredInsideOwnDir ==
    /\ \A s \in Sessions :
           \A k \in 1..Len(session_images[s]) :
               session_images[s][k].dir = temp_dir[s]
    /\ \A s, t \in Sessions :
           (s # t /\ pc[s] # "closed" /\ pc[t] # "closed")
           => /\ temp_dir[s] # None => temp_dir[s] # temp_dir[t]
              /\ \A j \in 1..Len(session_images[s]) :
                     \A k \in 1..Len(session_images[t]) :
                         session_images[s][j] # session_images[t][k]

\* The cycle of s is in progress: between the upload_complete and the return
\* to the receive loop.
InCycle(s) == pc[s] \in {"loading", "fast3r", "heuristic", "stream", "demo"}

\* The last message the client of s received ends a cycle.
TerminalDelivered(s) ==
    /\ out[s] # <<>>
    /\ out[s][Len(out[s])].type \in {"reconstruction_complete", "error"}

\* C26: a cycle in progress on a connection that stays open leads to the
\* handler back in its receive loop with a terminal message delivered,
\* reconstruction_complete or error, as long as the process is serving.
C26_CycleTerminates ==
    \A s \in Sessions :
        InCycle(s)
        ~> \/ pc[s] = "receive" /\ TerminalDelivered(s)
           \/ ~connected[s]
           \/ ~Serving

\* A cycle on stored images has streamed its chunks and its completion to an
\* open connection and the handler is receiving again.
C26_Witness ==
    \E s \in Sessions :
        /\ pc[s] = "receive"
        /\ connected[s]
        /\ invoked[s] # <<>>
        /\ Len(points[s]) > chunk_size
        /\ TerminalDelivered(s)
        /\ Len(out[s]) = 3

\* C27: while the cycle of a connection is in progress its handler takes no
\* other inbound message: the last message handled stays the upload_complete,
\* the image list stays the one passed to process_images, and no second cycle
\* starts before the first has ended.
C27_NoMessageDuringCycle ==
    /\ [](\A s \in Sessions :
             InCycle(s)
             => /\ last_msg[s].type = "upload_complete"
                /\ invoked[s] # <<>> => InvokedWith(s) = session_images[s])
    /\ [][\A s \in Sessions :
             InCycle(s)
             => /\ last_msg'[s] = last_msg[s]
                /\ session_images'[s] = session_images[s]
                /\ invoked'[s] = invoked[s]]_vars

\* A cycle on two stored images is streaming its second chunk to an open
\* connection.
C27_Witness ==
    \E s \in Sessions :
        /\ pc[s] = "stream"
        /\ connected[s]
        /\ i[s] = chunk_size
        /\ i[s] < Len(points[s])
        /\ Len(InvokedWith(s)) = 2
        /\ InvokedWith(s) = session_images[s]

\* C28: the count of an upload_complete decides nothing: the branch is demo
\* exactly when no image is stored, process_images gets the stored images,
\* and the count is kept only in the record of the message.
C28_CountIsAdvisory ==
    [][\A s \in Sessions, c \in Counts :
          UploadComplete(s, c)
          => /\ pc'[s] = "demo" <=> session_images[s] = <<>>
             /\ invoked'[s] = IF session_images[s] = <<>> THEN <<>>
                              ELSE <<session_images[s]>>
             /\ Len(session_images[s]) = 1
                => /\ pc'[s] = "receive"
                   /\ out'[s] = <<ErrorMsg("Insufficient images")>>
             /\ Len(session_images[s]) >= 2
                => /\ pc'[s] \in {"loading", "fast3r", "heuristic"}
                   /\ out'[s] = <<>>
             /\ session_images'[s] = session_images[s]
             /\ last_msg'[s].count = c]_vars

\* An upload_complete that declared 2 images on a connection with none stored
\* ran the demo to its end, and so delivered 101 messages.
C28_Witness ==
    \E s \in Sessions :
        /\ last_msg[s] = UploadCompleteMsg(2)
        /\ session_images[s] = <<>>
        /\ invoked[s] = <<>>
        /\ pc[s] = "receive"
        /\ Len(out[s]) = demo_chunks + 1

====
